---- MODULE Spec2Model ----
(***************************************************************************)
(* Model of the trajectory evaluation of src/eval.py (class Evaluation)    *)
(* and of the connectivity-graph loader of src/utils.py (load_nav_graphs). *)
(*                                                                         *)
(* Viewpoint ids and scan ids are strings.  An instruction id, the string  *)
(* '%d_%d' % (path_id, i), is the token sequence <<path_id, "_", i>>.      *)
(* Distances are the exact values the floating-point code computes on the  *)
(* input sets used here: every pose coordinate is a small integer and      *)
(* every edge length a whole number, so sums and square roots are exact.   *)
(* A success-weighted path length (a quotient) is a reduced fraction       *)
(* <<numerator, denominator>>.                                             *)
(***************************************************************************)
EXTENDS Integers, Sequences, FiniteSets, TLC

VARIABLES
    conn,        \* connectivity/<scan>_connectivity.json: scan -> records
    dataset,     \* what load_datasets(splits, opts) returns
    splits,      \* the splits argument of Evaluation(...)
    pc,          \* "new", "failed", "ready", "scan", "returned", "raised"
    err,         \* the exception that ended the last call, or NoErr
    gt,          \* self.gt
    instr_ids,   \* self.instr_ids
    scans,       \* self.scans
    graphs,      \* self.graphs
    distances,   \* self.distances
    scores,      \* self.scores
    point_cnt,   \* local point_cnt of score
    point_match, \* local point_match of score
    remaining,   \* local instr_ids of score
    item,        \* the entry score passed to _score_item last (its arguments)
    nread,       \* number of entries of the submission read in this call
    calls,       \* number of calls of score so far
    sub          \* history: what the entries read in this call were

vars == <<conn, dataset, splits, pc, err, gt, instr_ids, scans, graphs,
          distances, scores, point_cnt, point_match, remaining, item, nread,
          calls, sub>>

-----------------------------------------------------------------------------
(* Bounds of the model *)

\* most entries read from one submission in Spec
MaxEntries == 4
\* most calls of score on one Evaluation object in Spec
MaxCalls == 2
\* longest trajectory scored in SpecItem
ItemTrajLen == 4

(* Program constants *)

\* range(3): instruction variants per path id
NumInstr == 3
\* self.error_margin = 3.0
ErrorMargin == 3

-----------------------------------------------------------------------------
(* Exceptions *)

NoErr == [kind |-> "none", at |-> "", msg |-> "", args |-> <<>>]

\* an exception: its class, the line that raises it, its message and the
\* numbers formatted into the message
Raise(kind, at, msg, args) == [kind |-> kind, at |-> at, msg |-> msg, args |-> args]

\* marker of a failed dictionary lookup (distances are never negative)
KeyError == -1

-----------------------------------------------------------------------------
(* utils.load_nav_graphs *)

\* a 16-element row-major pose whose translation is (x, y, z)
Pose(x, y, z) == <<1, 0, 0, x,  0, 1, 0, y,  0, 0, 1, z,  0, 0, 0, 1>>

\* n ** 0.5 on the perfect squares the input sets produce
Sqrt(n) == CHOOSE r \in 0..n : r * r = n

\* Euclidean distance between two graph poses (pose[3], pose[7], pose[11])
distance(pose1, pose2) ==
    Sqrt((pose1.pose[4] - pose2.pose[4]) * (pose1.pose[4] - pose2.pose[4])
         + (pose1.pose[8] - pose2.pose[8]) * (pose1.pose[8] - pose2.pose[8])
         + (pose1.pose[12] - pose2.pose[12]) * (pose1.pose[12] - pose2.pose[12]))

\* nx.Graph(): undirected, an edge is the set of its one or two end points
EmptyGraph == [nodes |-> {}, weight |-> <<>>, position |-> <<>>]

\* G.add_edge(u, v, weight=w): adds the nodes, sets or overwrites the weight
AddEdge(G, u, v, w) ==
    [G EXCEPT !.nodes = @ \cup {u, v},
              !.weight = [e \in DOMAIN @ \cup {{u, v}} |->
                             IF e = {u, v} THEN w ELSE @[e]]]

\* positions[image_id] = np.array([pose[3], pose[7], pose[11]])
SetPosition(positions, id, pose) ==
    [n \in DOMAIN positions \cup {id} |->
        IF n = id THEN <<pose[4], pose[8], pose[12]>> ELSE positions[n]]

\* nx.set_node_attributes(G, values=positions, name='position')
SetNodeAttributes(G, positions) ==
    [G EXCEPT !.position = [n \in DOMAIN positions \cap G.nodes |-> positions[n]]]

EdgeWantedUnchecked(data, i, j) ==
    data[i].unobstructed[j]

\* if conn and data[j]['included']
EdgeWanted(data, i, j) ==
    data[i].unobstructed[j] /\ data[j].included

\* the two loops over enumerate(data) and enumerate(item['unobstructed'])
RECURSIVE LoadLoop(_, _, _, _, _)
LoadLoop(data, i, j, G, positions) ==
    IF i > Len(data)
    THEN [ok |-> TRUE, G |-> SetNodeAttributes(G, positions)]
    ELSE IF ~data[i].included \/ j > Len(data[i].unobstructed)
    THEN LoadLoop(data, i + 1, 1, G, positions)
    ELSE IF EdgeWanted(data, i, j)
    THEN IF ~data[j].unobstructed[i]
         THEN [ok |-> FALSE, G |-> EmptyGraph]
         ELSE LoadLoop(data, i, j + 1,
                       AddEdge(G, data[i].image_id, data[j].image_id,
                               distance(data[i], data[j])),
                       SetPosition(positions, data[i].image_id, data[i].pose))
    ELSE LoadLoop(data, i, j + 1, G, positions)

\* the graph of one scan, or the failed assertion 'Graph should be undirected'
LoadNavGraph(data) == LoadLoop(data, 1, 1, EmptyGraph, <<>>)

-----------------------------------------------------------------------------
(* nx.all_pairs_dijkstra_path_length *)

Neighbours(G, v) == {u \in G.nodes : {u, v} \in DOMAIN G.weight}

ImprovesAlways(seen, u, cand) == TRUE

\* a node not seen before, or reached by a shorter way than the one seen
Improves(seen, u, cand) == u \notin DOMAIN seen \/ cand < seen[u]

\* Dijkstra's loop: done holds the final distances, seen the tentative ones
RECURSIVE DijkstraLoop(_, _, _)
DijkstraLoop(G, done, seen) ==
    LET fringe == DOMAIN seen \ DOMAIN done
    IN IF fringe = {} THEN done
       ELSE LET v == CHOOSE x \in fringe : \A y \in fringe : seen[x] <= seen[y]
                done2 == [n \in DOMAIN done \cup {v} |->
                             IF n = v THEN seen[v] ELSE done[n]]
                nb == Neighbours(G, v) \ DOMAIN done2
                seen2 == [u \in DOMAIN seen \cup nb |->
                             IF u \in nb /\ Improves(seen, u, seen[v] + G.weight[{u, v}])
                             THEN seen[v] + G.weight[{u, v}]
                             ELSE seen[u]]
            IN DijkstraLoop(G, done2, seen2)

\* the lengths of the shortest paths from source to every node it reaches
SingleSource(G, source) == DijkstraLoop(G, <<>>, [n \in {source} |-> 0])

\* dict(nx.all_pairs_dijkstra_path_length(G))
AllPairs(G) == [a \in G.nodes |-> SingleSource(G, a)]

\* self.distances[scan][a][b], or KeyError
Lookup(D, a, b) ==
    IF a \in DOMAIN D /\ b \in DOMAIN D[a] THEN D[a][b] ELSE KeyError

-----------------------------------------------------------------------------
(* Evaluation.__init__ *)

\* '%d_%d' % (path_id, i)
FormatId(path_id, i) == <<path_id, "_", i>>

\* int(instr_id.split('_')[0])
ParsePathId(instr_id) == instr_id[1]

\* self.instr_ids: '%d_%d' % (path_id, i) for i in range(3), for every item
InstrIds(data) ==
    {FormatId(data[k].path_id, i) : k \in DOMAIN data, i \in 0..(NumInstr - 1)}

\* self.gt[item['path_id']] = item (a later item overwrites an earlier one)
GtOf(data) ==
    [p \in {data[k].path_id : k \in DOMAIN data} |->
        data[CHOOSE k \in DOMAIN data :
                /\ data[k].path_id = p
                /\ \A m \in DOMAIN data : data[m].path_id = p => m <= k]]

\* set(self.scans)
ScansOf(data) == {data[k].scan : k \in DOMAIN data}

-----------------------------------------------------------------------------
(* Evaluation._get_nearest *)

CloserWrong(d, near_d) == d > near_d

\* if d < near_d
Closer(d, near_d) == d < near_d

\* for item in path: the nearest viewpoint so far, or KeyError
RECURSIVE NearestLoop(_, _, _, _, _, _)
NearestLoop(D, goal_id, path, i, near_id, near_d) ==
    IF i > Len(path) THEN [ok |-> TRUE, id |-> near_id, at |-> ""]
    ELSE LET d == Lookup(D, path[i][1], goal_id)
         IN IF d = KeyError THEN [ok |-> FALSE, id |-> near_id, at |-> "eval.py:40"]
            ELSE IF Closer(d, near_d)
            THEN NearestLoop(D, goal_id, path, i + 1, path[i][1], d)
            ELSE NearestLoop(D, goal_id, path, i + 1, near_id, near_d)

GetNearest(D, goal_id, path) ==
    LET near_id == path[1][1]
        near_d == Lookup(D, near_id, goal_id)
    IN IF near_d = KeyError THEN [ok |-> FALSE, id |-> near_id, at |-> "eval.py:38"]
       ELSE NearestLoop(D, goal_id, path, 1, near_id, near_d)

-----------------------------------------------------------------------------
(* Evaluation._score_item *)

EmptyScores ==
    [nav_errors |-> <<>>, oracle_errors |-> <<>>, trajectory_steps |-> <<>>,
     trajectory_lengths |-> <<>>, success_path_length |-> <<>>]

StartMatchesAlways(gtpath, path) == TRUE

\* assert start == path[0][0]
StartMatches(gtpath, path) == gtpath[1] = path[1][1]

PointCountsAnyGt(gtpath, path) ==
    LET cand == {<<idx, g>> \in (1..(Len(path) - 1)) \X (1..Len(gtpath)) :
                    gtpath[g] = path[idx][1]}
        match == {c \in cand : c[2] < Len(gtpath)
                                /\ gtpath[c[2] + 1] = path[c[1] + 1][1]}
    IN [cnt |-> Cardinality(cand), match |-> Cardinality(match)]

\* the two loops over range(len(path)-1) and range(len(gt['path'])-1)
PointCounts(gtpath, path) ==
    LET cand == {<<idx, g>> \in (1..(Len(path) - 1)) \X (1..(Len(gtpath) - 1)) :
                    gtpath[g] = path[idx][1]}
        match == {c \in cand : gtpath[c[2] + 1] = path[c[1] + 1][1]}
    IN [cnt |-> Cardinality(cand), match |-> Cardinality(match)]

TrajectoryDisplacement(D, path, i) ==
    Lookup(D, path[1][1], path[Len(path)][1])

\* distance += self.distances[scan][prev[0]][curr[0]] for curr in path[1:]
RECURSIVE TrajectoryLength(_, _, _)
TrajectoryLength(D, path, i) ==
    IF i >= Len(path) THEN 0
    ELSE LET d == Lookup(D, path[i][1], path[i + 1][1])
             rest == TrajectoryLength(D, path, i + 1)
         IN IF d = KeyError \/ rest = KeyError THEN KeyError ELSE d + rest

IsSuccessInclusive(nav_error) == nav_error <= ErrorMargin

\* is_success = distance to goal < self.error_margin
IsSuccess(nav_error) == nav_error < ErrorMargin

Max(a, b) == IF a >= b THEN a ELSE b

RECURSIVE Gcd(_, _)
Gcd(a, b) == IF b = 0 THEN a ELSE Gcd(b, a % b)

\* the float n / d, d > 0, as a reduced fraction
Quotient(n, d) == <<n \div Gcd(n, d), d \div Gcd(n, d)>>

TestOnly == <<"test">>

\* is_success * d / max(d, distance), the denominator not being 0
SplValue(is_success, d_start_goal, length) ==
    Quotient((IF is_success THEN 1 ELSE 0) * d_start_goal, Max(d_start_goal, length))

AppendSplSkipTest(sc, spl, is_success, d_start_goal, length) ==
    IF spl = TestOnly
    THEN [err |-> NoErr, scores |-> sc]
    ELSE IF d_start_goal = KeyError
    THEN [err |-> Raise("KeyError", "eval.py:85", "", <<>>), scores |-> sc]
    ELSE IF Max(d_start_goal, length) = 0
    THEN [err |-> Raise("ZeroDivisionError", "eval.py:85", "", <<>>), scores |-> sc]
    ELSE [err |-> NoErr,
          scores |-> [sc EXCEPT !.success_path_length =
                                    Append(@, SplValue(is_success, d_start_goal, length))]]

\* lines 81-86: appends 0 under ['test'], otherwise the quotient, unless the
\* lookup of d(start, goal) or the division raises
AppendSpl(sc, spl, is_success, d_start_goal, length) ==
    IF spl = TestOnly
    THEN [err |-> NoErr,
          scores |-> [sc EXCEPT !.success_path_length = Append(@, Quotient(0, 1))]]
    ELSE IF d_start_goal = KeyError
    THEN [err |-> Raise("KeyError", "eval.py:85", "", <<>>), scores |-> sc]
    ELSE IF Max(d_start_goal, length) = 0
    THEN [err |-> Raise("ZeroDivisionError", "eval.py:85", "", <<>>), scores |-> sc]
    ELSE [err |-> NoErr,
          scores |-> [sc EXCEPT !.success_path_length =
                                    Append(@, SplValue(is_success, d_start_goal, length))]]

\* the result of a call that raised: the scores as far as they were appended
Failed(sc, e) == [scores |-> sc, err |-> e, cnt |-> 0, match |-> 0]

\* the metric appends of lines 67-86, after the counters were computed
ScoreMetrics(g, D, spl, sc, path, counts) ==
    LET start == g.path[1]
        goal == g.path[Len(g.path)]
        final_position == path[Len(path)][1]
        nearest == GetNearest(D, goal, path)
    IN IF ~nearest.ok THEN Failed(sc, Raise("KeyError", nearest.at, "", <<>>))
       ELSE
       LET nav == Lookup(D, final_position, goal)
           orc == Lookup(D, nearest.id, goal)
           s3 == [sc EXCEPT !.nav_errors = Append(@, nav),
                            !.oracle_errors = Append(@, orc),
                            !.trajectory_steps = Append(@, Len(path) - 1)]
           dist == TrajectoryLength(D, path, 1)
       IN IF dist = KeyError THEN Failed(s3, Raise("KeyError", "eval.py:76", "", <<>>))
          ELSE
          LET s4 == [s3 EXCEPT !.trajectory_lengths = Append(@, dist)]
              s5 == AppendSpl(s4, spl, IsSuccess(nav), Lookup(D, start, goal), dist)
          IN IF s5.err # NoErr
             THEN Failed(s5.scores, s5.err)
             ELSE [scores |-> s5.scores, err |-> NoErr,
                   cnt |-> counts.cnt, match |-> counts.match]

\* self._score_item(instr_id, path): the scores after it, the exception it
\* raised (or NoErr) and the counters it returns
ScoreItem(self_gt, self_distances, spl, sc, instr_id, path) ==
    LET g == self_gt[ParsePathId(instr_id)]
    IN IF Len(g.path) = 0
       THEN Failed(sc, Raise("IndexError", "eval.py:50", "", <<>>))
       ELSE IF Len(path) = 0
       THEN Failed(sc, Raise("IndexError", "eval.py:51", "", <<>>))
       ELSE IF ~StartMatches(g.path, path)
       THEN Failed(sc, Raise("AssertionError", "eval.py:51",
                             "Result trajectories should include the start position",
                             <<>>))
       ELSE IF Len(g.path) < 2
       THEN Failed(sc, Raise("IndexError", "eval.py:53", "", <<>>))
       ELSE ScoreMetrics(g, self_distances[g.scan], spl, sc, path,
                         PointCounts(g.path, path))

-----------------------------------------------------------------------------
(* History of the submission, kept beside the program's state.  It is      *)
(* computed from the entries and the input files only, never from the      *)
(* fields of the Evaluation object.                                        *)

\* the ids the dataset asks for: path_id_0, path_id_1, path_id_2
ExpectedIds ==
    {<<dataset[k].path_id, "_", i>> : k \in DOMAIN dataset, i \in {0, 1, 2}}

\* the reference path of an expected id
GtPathOf(id) ==
    dataset[CHOOSE k \in DOMAIN dataset : dataset[k].path_id = id[1]].path

\* the viewpoints joined to some viewpoint by an edge of the scan's file
FileNodes(data) ==
    {data[i].image_id : i \in {i \in DOMAIN data :
        /\ data[i].included
        /\ \E j \in DOMAIN data :
              /\ data[j].included
              /\ data[i].unobstructed[j] \/ data[j].unobstructed[i]}}

\* the viewpoints of a trajectory
Viewpoints(path) == [i \in DOMAIN path |-> path[i][1]]

Count(id) == IF id \in DOMAIN sub.count THEN sub.count[id] ELSE 0

\* the trajectory starts somewhere else than the reference path does
StartsElsewhere(e) ==
    /\ e.instr_id \in ExpectedIds
    /\ Len(e.trajectory) > 0
    /\ Len(GtPathOf(e.instr_id)) > 0
    /\ e.trajectory[1][1] # GtPathOf(e.instr_id)[1]

\* non-empty, from the reference start, through viewpoints of the graph only
WellFormed(e) ==
    \/ e.instr_id \notin ExpectedIds
    \/ /\ Len(e.trajectory) > 0
       /\ Len(GtPathOf(e.instr_id)) > 0
       /\ e.trajectory[1][1] = GtPathOf(e.instr_id)[1]
       /\ \A i \in DOMAIN e.trajectory :
             \A k \in DOMAIN dataset :
                e.trajectory[i][1] \in FileNodes(conn[dataset[k].scan])

EmptySub ==
    [count |-> <<>>, mismatch |-> FALSE, firstMismatch |-> FALSE,
     wellFormed |-> TRUE]

Recorded(h, e) ==
    [count |-> [id \in DOMAIN h.count \cup {e.instr_id} |->
                   IF id = e.instr_id
                   THEN (IF id \in DOMAIN h.count THEN h.count[id] ELSE 0) + 1
                   ELSE h.count[id]],
     mismatch |-> h.mismatch \/ StartsElsewhere(e),
     firstMismatch |-> h.firstMismatch
                          \/ (StartsElsewhere(e) /\ e.instr_id \notin DOMAIN h.count),
     wellFormed |-> h.wellFormed /\ WellFormed(e)]

-----------------------------------------------------------------------------
(* Actions *)

NoItem == [instr_id |-> <<>>, trajectory |-> <<>>]

\* Evaluation(splits, opts)
Construct ==
    /\ pc = "new"
    /\ gt' = GtOf(dataset)
    /\ instr_ids' = InstrIds(dataset)
    /\ scans' = ScansOf(dataset)
    /\ LET loaded == [s \in ScansOf(dataset) |-> LoadNavGraph(conn[s])]
       IN IF \E s \in DOMAIN loaded : ~loaded[s].ok
          THEN /\ pc' = "failed"
               /\ err' = Raise("AssertionError", "utils.py:54",
                               "Graph should be undirected", <<>>)
               /\ graphs' = <<>>
               /\ distances' = <<>>
          ELSE /\ pc' = "ready"
               /\ err' = NoErr
               /\ graphs' = [s \in DOMAIN loaded |-> loaded[s].G]
               /\ distances' = [s \in DOMAIN loaded |-> AllPairs(loaded[s].G)]
    /\ UNCHANGED <<conn, dataset, splits, scores, point_cnt, point_match,
                   remaining, item, nread, calls, sub>>

\* score(output_file), lines 101-105: the call starts
ScoreBegin(maxCalls) ==
    /\ pc \in {"ready", "returned", "raised"}
    /\ calls < maxCalls
    /\ pc' = "scan"
    /\ err' = NoErr
    /\ scores' = EmptyScores
    /\ point_cnt' = 0
    /\ point_match' = 0
    /\ remaining' = instr_ids
    /\ item' = NoItem
    /\ nread' = 0
    /\ calls' = calls + 1
    /\ sub' = EmptySub
    /\ UNCHANGED <<conn, dataset, splits, gt, instr_ids, scans, graphs, distances>>

\* score, lines 106-112: one turn of the loop over the submission
ScoreEntry(entries, maxEntries) ==
    /\ pc = "scan"
    /\ nread < maxEntries
    /\ \E e \in entries :
          /\ nread' = nread + 1
          /\ sub' = Recorded(sub, e)
          /\ IF e.instr_id \in remaining
             THEN LET r == ScoreItem(gt, distances, splits, scores,
                                     e.instr_id, e.trajectory)
                  IN /\ item' = e
                     /\ remaining' = remaining \ {e.instr_id}
                     /\ scores' = r.scores
                     /\ err' = r.err
                     /\ IF r.err = NoErr
                        THEN /\ pc' = "scan"
                             /\ point_cnt' = point_cnt + r.cnt
                             /\ point_match' = point_match + r.match
                        ELSE /\ pc' = "raised"
                             /\ UNCHANGED <<point_cnt, point_match>>
             ELSE UNCHANGED <<pc, err, scores, point_cnt, point_match, remaining,
                              item>>
    /\ UNCHANGED <<conn, dataset, splits, gt, instr_ids, scans, graphs,
                   distances, calls>>

FinishNoAsserts(left, all, sc, cnt) ==
    IF Len(sc.nav_errors) = 0
    THEN Raise("ZeroDivisionError", "eval.py:124", "", <<>>)
    ELSE IF cnt = 0
    THEN Raise("ZeroDivisionError", "eval.py:127", "", <<>>)
    ELSE NoErr

FinishWrongCount(left, all, sc, cnt) ==
    IF Cardinality(left) # 0
    THEN Raise("AssertionError", "eval.py:113", "Missing %d of %d instruction ids",
               <<Cardinality(all), Cardinality(all)>>)
    ELSE IF Len(sc.nav_errors) # Cardinality(all)
    THEN Raise("AssertionError", "eval.py:115", "", <<>>)
    ELSE IF cnt = 0
    THEN Raise("ZeroDivisionError", "eval.py:127", "", <<>>)
    ELSE NoErr

\* score, lines 113-128: the exception the end of the call raises, or NoErr
Finish(left, all, sc, cnt) ==
    IF Cardinality(left) # 0
    THEN Raise("AssertionError", "eval.py:113", "Missing %d of %d instruction ids",
               <<Cardinality(left), Cardinality(all)>>)
    ELSE IF Len(sc.nav_errors) # Cardinality(all)
    THEN Raise("AssertionError", "eval.py:115", "", <<>>)
    ELSE IF Len(sc.nav_errors) = 0
    THEN Raise("ZeroDivisionError", "eval.py:124", "", <<>>)
    ELSE IF Len(sc.oracle_errors) = 0
    THEN Raise("ZeroDivisionError", "eval.py:126", "", <<>>)
    ELSE IF cnt = 0
    THEN Raise("ZeroDivisionError", "eval.py:127", "", <<>>)
    ELSE NoErr

\* score, lines 113-128: the submission is exhausted
ScoreFinish ==
    /\ pc = "scan"
    /\ err' = Finish(remaining, instr_ids, scores, point_cnt)
    /\ pc' = IF err' = NoErr THEN "returned" ELSE "raised"
    /\ UNCHANGED <<conn, dataset, splits, gt, instr_ids, scans, graphs,
                   distances, scores, point_cnt, point_match, remaining, item,
                   nread, calls, sub>>

-----------------------------------------------------------------------------
(* Inputs *)

\* a connectivity file: ids and poses of the records, the indices of the
\* included ones, and the ordered index pairs marked unobstructed
File(ids, poses, incl, links) ==
    [k \in DOMAIN ids |->
        [image_id |-> ids[k], included |-> k \in incl, pose |-> poses[k],
         unobstructed |-> [j \in DOMAIN ids |-> <<k, j>> \in links]]]

Sym(links) == links \cup {<<l[2], l[1]>> : l \in links}

Trajectory(vps) == [i \in DOMAIN vps |-> <<vps[i], 0, 0>>]

SeqsUpTo(S, n) == UNION {[1..m -> S] : m \in 0..n}

TheScan == "s1"

\* a dataset of one item, of path id 1
DatasetOf(path) ==
    <<[path_id |-> 1, scan |-> TheScan, path |-> path,
       instructions |-> <<"i0", "i1", "i2">>]>>

BeforeConstruction ==
    /\ pc = "new"
    /\ err = NoErr
    /\ gt = <<>>
    /\ instr_ids = {}
    /\ scans = {}
    /\ graphs = <<>>
    /\ distances = <<>>
    /\ scores = EmptyScores
    /\ point_cnt = 0
    /\ point_match = 0
    /\ remaining = {}
    /\ item = NoItem
    /\ nread = 0
    /\ calls = 0
    /\ sub = EmptySub

(* SpecLoad: every connectivity file of three records over three layouts *)

LoadIds == <<"A", "B", "C">>

LoadLayouts ==
    { <<Pose(0, 0, 0), Pose(3, 0, 0), Pose(3, 4, 0)>>,
      <<Pose(0, 0, 0), Pose(0, 1, 0), Pose(0, 4, 0)>>,
      <<Pose(0, 0, 0), Pose(0, 0, 0), Pose(0, 0, 2)>> }

LoadFiles ==
    {File(LoadIds, ps, incl, links) :
        ps \in LoadLayouts, incl \in SUBSET DOMAIN LoadIds,
        links \in SUBSET ((DOMAIN LoadIds) \X (DOMAIN LoadIds))}

InitLoad ==
    /\ conn \in {[s \in {TheScan} |-> f] : f \in LoadFiles}
    /\ dataset = DatasetOf(<<"A", "B">>)
    /\ splits \in {<<"val_seen">>}
    /\ BeforeConstruction

NextLoad == Construct

SpecLoad == InitLoad /\ [][NextLoad]_vars

(* Spec: the whole life of an Evaluation object over small inputs *)

\* A, B and C in a line at 0, 1 and 4
LinePoses == <<Pose(0, 0, 0), Pose(1, 0, 0), Pose(4, 0, 0)>>

MainFiles ==
    { File(LoadIds, LinePoses, {1, 2, 3}, Sym({<<1, 2>>, <<2, 3>>})),
      File(LoadIds, LinePoses, {1, 2}, Sym({<<1, 2>>, <<2, 3>>})),
      File(LoadIds, LinePoses, {1, 2, 3}, Sym({<<1, 2>>}) \cup {<<2, 3>>}) }

MainPaths == { <<"A">>, <<"A", "A">>, <<"A", "B">>, <<"A", "B", "C">> }

MainIds == {FormatId(1, i) : i \in 0..(NumInstr - 1)} \cup {FormatId(7, 0)}

\* no viewpoint, no step, a step, a step of length 0, another start
MainTrajectories == { <<>>, <<"A">>, <<"A", "B">>, <<"A", "A">>, <<"B">> }

MainEntries ==
    {[instr_id |-> id, trajectory |-> Trajectory(vps)] :
        id \in MainIds, vps \in MainTrajectories}

Init ==
    /\ conn \in {[s \in {TheScan} |-> f] : f \in MainFiles}
    /\ dataset \in {DatasetOf(p) : p \in MainPaths}
    /\ splits \in {<<"test">>, <<"val_seen">>}
    /\ BeforeConstruction

Next ==
    \/ Construct
    \/ ScoreBegin(MaxCalls)
    \/ ScoreEntry(MainEntries, MaxEntries)
    \/ ScoreFinish

Spec == Init /\ [][Next]_vars

(* SpecItem: _score_item on one entry, over four viewpoints *)

ItemIds == <<"A", "B", "C", "D">>

ItemFiles ==
    { \* the unit square A-B-C-D-A
      File(ItemIds, <<Pose(0, 0, 0), Pose(1, 0, 0), Pose(1, 1, 0), Pose(0, 1, 0)>>,
           {1, 2, 3, 4}, Sym({<<1, 2>>, <<2, 3>>, <<3, 4>>, <<4, 1>>})),
      \* the triangle A-B-C with sides 3, 4 and 5; D is left out
      File(ItemIds, <<Pose(0, 0, 0), Pose(3, 0, 0), Pose(3, 4, 0), Pose(0, 0, 1)>>,
           {1, 2, 3}, Sym({<<1, 2>>, <<2, 3>>, <<1, 3>>, <<1, 4>>})) }

ItemPaths == SeqsUpTo({"A", "B", "C", "D"}, 3) \ {<<>>}

ItemEntries ==
    {[instr_id |-> FormatId(1, 0), trajectory |-> Trajectory(vps)] :
        vps \in SeqsUpTo({"A", "B", "C", "D"}, ItemTrajLen)}

InitItem ==
    /\ conn \in {[s \in {TheScan} |-> f] : f \in ItemFiles}
    /\ dataset \in {DatasetOf(p) : p \in ItemPaths}
    /\ splits \in {<<"test">>, <<"test", "val_unseen">>}
    /\ BeforeConstruction

NextItem ==
    \/ Construct
    \/ ScoreBegin(1)
    \/ ScoreEntry(ItemEntries, 1)

SpecItem == InitItem /\ [][NextItem]_vars

-----------------------------------------------------------------------------
(* Properties of load_nav_graphs and of the distance table (SpecLoad) *)

TheFile == conn[TheScan]

\* records i and j are both included and unobstructed from i to j
Sees(data, i, j) ==
    data[i].included /\ data[j].included /\ data[i].unobstructed[j]

Asymmetric(data) ==
    \E i, j \in DOMAIN data : Sees(data, i, j) /\ ~Sees(data, j, i)

UndirectedAssertion ==
    /\ pc = "failed"
    /\ err.kind = "AssertionError"
    /\ err.msg = "Graph should be undirected"

\* C6: load_nav_graphs either fails with the assertion 'Graph should be
\* undirected' or returns a graph in which an edge joins viewpoints i and j
\* exactly when both records are included and each is unobstructed from the
\* other; it fails whenever the relation is asymmetric between two included
\* viewpoints.
C6_EdgesIffMutual ==
    pc # "new" =>
       /\ \/ UndirectedAssertion
          \/ /\ pc = "ready"
             /\ \A i, j \in DOMAIN TheFile :
                   ({TheFile[i].image_id, TheFile[j].image_id}
                        \in DOMAIN graphs[TheScan].weight)
                   <=> (Sees(TheFile, i, j) /\ Sees(TheFile, j, i))
       /\ Asymmetric(TheFile) => UndirectedAssertion

\* a graph was returned that has an edge, although some record that is not
\* included is marked unobstructed both ways and one-way marks lead to it
C6_Witness ==
    /\ pc = "ready"
    /\ DOMAIN graphs[TheScan].weight # {}
    /\ \E i, j \in DOMAIN TheFile :
          /\ i # j
          /\ ~TheFile[j].included
          /\ TheFile[i].included
          /\ TheFile[i].unobstructed[j]
          /\ TheFile[j].unobstructed[i]
    /\ \E i, j \in DOMAIN TheFile :
          TheFile[i].unobstructed[j] /\ ~TheFile[j].unobstructed[i]

-----------------------------------------------------------------------------
(* Properties of _score_item (SpecItem: one entry, always of an expected   *)
(* id, is scored by each call)                                             *)

TheTable == distances[TheScan]

GtPath == dataset[1].path

\* _score_item ran on item
ItemScored == pc \in {"scan", "raised"} /\ nread = 1

\* every viewpoint of the reference path is in the table and reached from
\* its first one
GtInGraph ==
    \A i \in DOMAIN GtPath :
       /\ GtPath[1] \in DOMAIN TheTable
       /\ GtPath[i] \in DOMAIN TheTable[GtPath[1]]

\* sum of the distances between consecutive viewpoints of a sequence
RECURSIVE SumOfSteps(_)
SumOfSteps(vps) ==
    IF Len(vps) < 2 THEN 0
    ELSE TheTable[vps[1]][vps[2]] + SumOfSteps(Tail(vps))

GtGoal == GtPath[Len(GtPath)]

MinOf(S) == CHOOSE m \in S : \A n \in S : m <= n

One == <<1, 1>>

\* C3 as stated: a trajectory equal to the reference path gets navigation
\* error 0, oracle error 0, the length of the reference path, a success and
\* SPL 1.0, for every reference path of the graph.  Stated here for the
\* calls of _score_item that return.
C3_ExactPathPerfect ==
    (ItemScored /\ GtInGraph /\ splits # TestOnly /\ err = NoErr
        /\ Viewpoints(item.trajectory) = GtPath)
    => /\ scores.nav_errors = <<0>>
       /\ scores.oracle_errors = <<0>>
       /\ scores.trajectory_lengths = <<SumOfSteps(GtPath)>>
       /\ scores.success_path_length = <<One>>

\* C3 amended: for a reference path of at least two viewpoints, a trajectory
\* equal to it gets navigation error 0 (a success), oracle error 0 and the
\* length L of the reference path; its SPL is d(start,goal) / max(d, L),
\* which is 1.0 exactly when L = d(start,goal) > 0; with L = 0 the division
\* raises and no SPL is appended.
C3_ExactPathScores ==
    (ItemScored /\ GtInGraph /\ splits # TestOnly /\ Len(GtPath) >= 2
        /\ Viewpoints(item.trajectory) = GtPath)
    => LET L == SumOfSteps(GtPath)
           d == TheTable[GtPath[1]][GtGoal]
       IN /\ scores.nav_errors = <<0>>
          /\ 0 < ErrorMargin
          /\ scores.oracle_errors = <<0>>
          /\ scores.trajectory_steps = <<Len(GtPath) - 1>>
          /\ scores.trajectory_lengths = <<L>>
          /\ IF L = 0
             THEN /\ scores.success_path_length = <<>>
                  /\ err.kind = "ZeroDivisionError"
                  /\ err.at = "eval.py:85"
             ELSE /\ err = NoErr
                  /\ Len(scores.success_path_length) = 1
                  /\ LET v == scores.success_path_length[1]
                     IN /\ v[2] > 0
                        /\ v[1] * Max(d, L) = v[2] * d
                        /\ (v = One) <=> (L = d)

\* a reference path that is not a shortest route to its goal was followed
\* exactly and got an SPL strictly between 0 and 1
C3_Witness ==
    /\ ItemScored /\ GtInGraph /\ splits # TestOnly
    /\ Viewpoints(item.trajectory) = GtPath
    /\ Len(GtPath) = 3
    /\ err = NoErr
    /\ scores.trajectory_lengths = <<SumOfSteps(GtPath)>>
    /\ Len(scores.success_path_length) = 1
    /\ scores.success_path_length[1][1] > 0
    /\ scores.success_path_length[1][1] < scores.success_path_length[1][2]

\* C4: the oracle error appended for a trajectory is at most the navigation
\* error appended for it, and is the least distance to the goal over all
\* viewpoints of the trajectory.
C4_OracleIsMinimum ==
    (ItemScored /\ Len(scores.oracle_errors) = 1)
    => LET vps == Viewpoints(item.trajectory)
       IN /\ Len(scores.nav_errors) = 1
          /\ scores.oracle_errors[1] <= scores.nav_errors[1]
          /\ scores.nav_errors[1] = TheTable[vps[Len(vps)]][GtGoal]
          /\ scores.oracle_errors[1]
                = MinOf({TheTable[vps[i]][GtGoal] : i \in DOMAIN vps})

\* the trajectory came nearest to the goal at a viewpoint that is neither
\* its first nor its last
C4_Witness ==
    /\ ItemScored
    /\ Len(scores.oracle_errors) = 1
    /\ Len(item.trajectory) >= 3
    /\ scores.oracle_errors[1] < scores.nav_errors[1]
    /\ scores.oracle_errors[1] < TheTable[item.trajectory[1][1]][GtGoal]

\* C9: the SPL appended is 0 when the splits are exactly ['test']; otherwise
\* it is success * d(start,goal) / max(d(start,goal), length) with success 1
\* iff the navigation error is below 3.0, hence 0 for an unsuccessful
\* trajectory and within 0..1 always.
C9_SplFormula ==
    (ItemScored /\ Len(scores.success_path_length) = 1)
    => LET v == scores.success_path_length[1]
           nav == scores.nav_errors[1]
           L == scores.trajectory_lengths[1]
           d == TheTable[GtPath[1]][GtGoal]
           success == IF nav < ErrorMargin THEN 1 ELSE 0
       IN /\ v[2] > 0
          /\ 0 <= v[1] /\ v[1] <= v[2]
          /\ splits = <<"test">> => v[1] = 0
          /\ splits # <<"test">> => v[1] * Max(d, L) = v[2] * success * d
          /\ nav >= ErrorMargin => v[1] = 0

\* outside ['test'] a trajectory that ended exactly 3.0 from a goal that is
\* farther than that from the start got SPL 0
C9_Witness ==
    /\ ItemScored
    /\ splits = <<"test", "val_unseen">>
    /\ Len(scores.success_path_length) = 1
    /\ scores.nav_errors[1] = ErrorMargin
    /\ TheTable[GtPath[1]][GtGoal] > ErrorMargin
    /\ scores.success_path_length[1][1] = 0

-----------------------------------------------------------------------------
(* Properties of score (Spec).  The entries read when a call ends are a    *)
(* whole submission: the one that ends with the entry the call ended at.   *)

\* the call of score has ended
Ended == pc \in {"returned", "raised"}

\* the expected ids no entry of the submission carries
Missing == {id \in ExpectedIds : Count(id) = 0}

CoverageError(k, n) ==
    /\ pc = "raised"
    /\ err.kind = "AssertionError"
    /\ err.at = "eval.py:113"
    /\ err.args = <<k, n>>

StartMismatchError ==
    /\ pc = "raised"
    /\ err.kind = "AssertionError"
    /\ err.at = "eval.py:51"

\* the exception came out of _score_item, not from the end of score
RaisedByEntry == pc = "raised" /\ err.at \notin {"eval.py:113", "eval.py:115",
                                                  "eval.py:124", "eval.py:126",
                                                  "eval.py:127"}

\* C1 as stated: a submission from which k >= 1 of the N expected ids are
\* absent always ends in the coverage error, which reports k and N.  Stated
\* here for the calls that end in an assertion or a summary, so that what
\* refutes it is one of the fatal conditions the program checks for.
C1_AlwaysCoverageError ==
    (Ended /\ Missing # {} /\ err.kind \in {"none", "AssertionError"})
    => CoverageError(Cardinality(Missing), Cardinality(ExpectedIds))

\* C1 amended: such a submission never yields a summary; unless scoring one
\* of its entries raised before the scan was over, the call fails with the
\* coverage error, which reports exactly k and N.
C1_CoverageErrorCounts ==
    (Ended /\ Missing # {})
    => /\ pc = "raised"
       /\ \/ RaisedByEntry
          \/ CoverageError(Cardinality(Missing), Cardinality(ExpectedIds))

\* one id of three was missing from a submission that repeated another id,
\* and the call reported "Missing 1 of 3"
C1_Witness ==
    /\ CoverageError(1, 3)
    /\ Cardinality(Missing) = 1
    /\ \E id \in ExpectedIds : Count(id) >= 2

\* C2 as stated: with an entry for an expected id that starts somewhere else
\* than the reference path anywhere in the submission, score raises the
\* start-mismatch assertion and returns no summary.  Stated here for the
\* calls that end in an assertion or a summary.
C2_AnyMismatchRaises ==
    (Ended /\ sub.mismatch /\ err.kind \in {"none", "AssertionError"})
    => StartMismatchError

\* C2 amended: when the first entry of an expected id starts somewhere else
\* than the reference path, score raises the start-mismatch assertion at
\* that entry and returns no summary; a later entry of an id already seen is
\* skipped, whatever its start.
C2_FirstMismatchRaises ==
    sub.firstMismatch => StartMismatchError

\* the assertion was raised at an entry that is not the first of the
\* submission, after an entry that was scored
C2_Witness ==
    /\ sub.firstMismatch
    /\ StartMismatchError
    /\ nread >= 2
    /\ Len(scores.nav_errors) >= 1

\* C5 as stated: a summary is returned only when every expected id appears
\* exactly once in the submission.
C5_ExactlyOnce ==
    pc = "returned" => \A id \in ExpectedIds : Count(id) = 1

\* C5 amended: a summary is returned only when every expected id appears at
\* least once in the submission; a submission that repeats an expected id is
\* accepted, the entries after the first of an id being skipped.
C5_AtLeastOnce ==
    pc = "returned" => \A id \in ExpectedIds : Count(id) >= 1

\* a summary was returned for a submission that carries an expected id twice
C5_Witness ==
    /\ pc = "returned"
    /\ \E id \in ExpectedIds : Count(id) >= 2

\* C8: when score returns a summary each of the five lists has exactly N
\* entries, N the number of expected ids, also with foreign or repeated ids
\* in the submission and in a later call on the same object.
C8_FiveListsOfN ==
    pc = "returned"
    => /\ instr_ids = ExpectedIds
       /\ Len(scores.nav_errors) = NumInstr * Len(dataset)
       /\ Len(scores.oracle_errors) = NumInstr * Len(dataset)
       /\ Len(scores.trajectory_steps) = NumInstr * Len(dataset)
       /\ Len(scores.trajectory_lengths) = NumInstr * Len(dataset)
       /\ Len(scores.success_path_length) = NumInstr * Len(dataset)

\* the second call on the object returned a summary for a submission with
\* an entry that was skipped
C8_Witness ==
    /\ pc = "returned"
    /\ calls = 2
    /\ nread > Cardinality(ExpectedIds)

\* the viewpoints the file joins to a, directly or through others
RECURSIVE FileReach(_, _)
FileReach(data, S) ==
    LET more == {data[j].image_id : j \in {j \in DOMAIN data :
                    \E i \in DOMAIN data :
                       /\ data[i].image_id \in S
                       /\ Sees(data, i, j) /\ Sees(data, j, i)}}
    IN IF more \subseteq S THEN S ELSE FileReach(data, S \cup more)

\* the graph of the file is connected and holds the whole reference path
ConnectedWithGt ==
    /\ \A a \in FileNodes(TheFile) : FileReach(TheFile, {a}) = FileNodes(TheFile)
    /\ \A i \in DOMAIN GtPath : GtPath[i] \in FileNodes(TheFile)

\* C10: a call ends in a summary or in one of the listed fatal conditions:
\* when the trajectories of the submission are non-empty, start where the
\* reference path does and stay within a connected graph, no entry raises,
\* and the call returns a summary once all expected ids are covered.  Stated
\* here for the reference paths that have a step.
C10_WellFormedReturns ==
    (Ended /\ sub.wellFormed /\ ConnectedWithGt /\ Len(GtPath) >= 2)
    => \/ pc = "returned"
       \/ /\ Missing # {}
          /\ CoverageError(Cardinality(Missing), Cardinality(ExpectedIds))

-----------------------------------------------------------------------------
(* Properties of the step-alignment counters of _score_item (SpecItem: the *)
(* one entry scored makes point_cnt and point_match of score the counters *)
(* that call returned)                                                     *)

\* _score_item returned its counters
ItemReturned == ItemScored /\ pc = "scan" /\ err = NoErr

ItemVps == Viewpoints(item.trajectory)

\* the indices of the trajectory other than its last
Steps == 1..(Len(ItemVps) - 1)

\* the viewpoints of the reference path
GtViewpoints == {GtPath[g] : g \in DOMAIN GtPath}

\* the positions of the reference path that have a next one and hold v
GtPositions(v) == {g \in 1..(Len(GtPath) - 1) : GtPath[g] = v}

\* sum of f over the indices 1..n
RECURSIVE SumTo(_, _)
SumTo(f, n) == IF n <= 0 THEN 0 ELSE f[n] + SumTo(f, n - 1)

\* C11 as stated: the candidate counter is the number of occurrences of
\* viewpoints of the reference path, any of them, at the indices of the
\* trajectory other than its last, each occurrence counted once; the match
\* counter is the number of those occurrences whose next submitted viewpoint
\* is the reference path's next viewpoint; match <= candidate.
C11_CountsOccurrences ==
    ItemReturned
    => /\ point_cnt = Cardinality({i \in Steps : ItemVps[i] \in GtViewpoints})
       /\ point_match
             = Cardinality({i \in Steps :
                              \E g \in GtPositions(ItemVps[i]) :
                                 GtPath[g + 1] = ItemVps[i + 1]})
       /\ point_match <= point_cnt

\* C11 amended: the candidate counter is the number of pairs of an index of
\* the trajectory other than its last and a position of the reference path
\* other than its last that hold the same viewpoint (the goal position is no
\* candidate, a viewpoint the reference path holds twice counts twice); the
\* match counter is the number of those pairs whose next viewpoints are the
\* same too; match <= candidate; [A,B,C] against [A,B,D,C] gives 2 and 1.
C11_CountsPairs ==
    ItemReturned
    => /\ point_cnt
             = SumTo([i \in Steps |-> Cardinality(GtPositions(ItemVps[i]))],
                     Len(ItemVps) - 1)
       /\ point_match
             = SumTo([i \in Steps |->
                        Cardinality({g \in GtPositions(ItemVps[i]) :
                                        GtPath[g + 1] = ItemVps[i + 1]})],
                     Len(ItemVps) - 1)
       /\ point_match <= point_cnt
       /\ (GtPath = <<"A", "B", "C">> /\ ItemVps = <<"A", "B", "D", "C">>)
             => (point_cnt = 2 /\ point_match = 1)

\* the reference path [A,B,C] was scored against [A,B,D,C]: A and B are
\* candidates, only the step from A matches
C11_Witness ==
    /\ ItemReturned
    /\ GtPath = <<"A", "B", "C">>
    /\ ItemVps = <<"A", "B", "D", "C">>
    /\ point_cnt = 2
    /\ point_match = 1

====
